---- MODULE Spec2Model ----
(***************************************************************************)
(* A model of problem.py of california_rainfall_test: the fold generator   *)
(* get_cv and the data loader _read_data with its two entry points.        *)
(*                                                                         *)
(* One behaviour is one call of one of the functions.  get_cv is followed  *)
(* through its group-assignment loop and then through the caller's         *)
(* iteration of the generator that LeaveOneGroupOut.split returned;        *)
(* _read_data is followed statement by statement.                          *)
(***************************************************************************)
EXTENDS Integers, Sequences, FiniteSets, TLC

VARIABLES
    pc,          \* position of the running call
    y_size,      \* get_cv: y.size, the length of the label vector
    groups,      \* get_cv: the groups array, index -> group id
    i,           \* get_cv: the slice start
    g,           \* get_cv: the loop variable of range(n_members)
    n_members,   \* get_cv: int(y.size / t_size)
    gen,         \* the generator returned by cv.split: its state
    unique_groups, \* the generator's sorted distinct group ids
    folds,       \* the (train, test) pairs the generator has yielded so far
    fs,          \* _read_data: the files that exist under <path>/data
    csv,         \* the content of the label file, once it has been read
    dims,        \* _read_data: the (ens, time) extents of the gridded files
    path,        \* _read_data: argument
    f_prefix,    \* _read_data: argument
    k,           \* _read_data: position in data_vars (1-based)
    nc_file,     \* _read_data: the resolved path of the current variable file
    stdout,      \* what print has written, in order
    handles,     \* the gridded files currently open
    ds,          \* the dataset being processed: variable, path, loaded flag
    X_coll,      \* _read_data: the stacked arrays appended so far
    X_ds,        \* _read_data: the merged structure
    y,           \* _read_data: the label table as read by read_csv
    y_array,     \* _read_data: the concatenated label vector
    io,          \* the file operations performed so far, in order
    ret,         \* the value the call returned
    err          \* the exception that left the call, or "none"

cvVars == <<y_size, groups, i, g, n_members, gen, unique_groups, folds>>
rdVars == <<fs, csv, dims, path, f_prefix, k, nc_file, stdout, handles, ds,
            X_coll, X_ds, y, y_array, io>>
vars == <<pc, cvVars, rdVars, ret, err>>

(***************************************************************************)
(* Bounds of the model.                                                    *)
(***************************************************************************)
MaxMembers == 3     \* label vectors hold up to MaxMembers full blocks ...
MaxRem == 1         \* ... plus a remainder of 0..MaxRem, or of t_size - 1
MaxCols == 2        \* data columns of the label table
MaxRows == 2        \* rows of the label table
MaxEns == 2         \* ensemble members of a gridded file
MaxTime == 2        \* time steps of a gridded file

t_size == 1155

None == "None"

(***************************************************************************)
(* get_cv                                                                  *)
(***************************************************************************)

\* The lengths of the label vectors tried.
Sizes ==
    {m * t_size + r : m \in 0..MaxMembers, r \in (0..MaxRem) \cup {t_size - 1}}

\* np.zeros(shape): indices 0 .. n-1, all zero.
zeros(n) == [j \in 0..(n - 1) |-> 0]

\* a[lo:hi] = v on a one-dimensional array: the slice is clipped to the array.
\* Mutants: the slice starts one late; the slice has no upper end (a[lo:] = v).
SliceAssign_late(a, lo, hi, v) ==
    [j \in DOMAIN a |-> IF lo + 1 <= j /\ j < hi THEN v ELSE a[j]]
SliceAssign_open(a, lo, hi, v) ==
    [j \in DOMAIN a |-> IF lo <= j THEN v ELSE a[j]]
SliceAssign(a, lo, hi, v) ==
    [j \in DOMAIN a |-> IF lo <= j /\ j < hi THEN v ELSE a[j]]

\* int(y.size / t_size): true division, truncated.
\* Mutant: rounded up.
Members_ceil(n) == (n + t_size - 1) \div t_size
Members(n) == n \div t_size

\* np.unique(groups) as the sorted sequence of the distinct values.
RECURSIVE SortedSeq(_)
SortedSeq(S) ==
    IF S = {} THEN <<>>
    ELSE LET m == CHOOSE a \in S : \A b \in S : a <= b
         IN  <<m>> \o SortedSeq(S \ {m})

unique(a) == SortedSeq({a[j] : j \in DOMAIN a})

\* One step of BaseCrossValidator.split: the mask groups == u, then
\* test = indices[mask], train = indices[~mask].
\* Mutants: train loses index 0; the test mask is groups <= u.
Fold_train_from_1(a, u) ==
    [train |-> {j \in DOMAIN a : a[j] # u} \ {0},
     test  |-> {j \in DOMAIN a : a[j] = u}]
Fold_mask_le(a, u) ==
    [train |-> {j \in DOMAIN a : a[j] # u},
     test  |-> {j \in DOMAIN a : a[j] <= u}]
Fold(a, u) ==
    [train |-> {j \in DOMAIN a : a[j] # u},
     test  |-> {j \in DOMAIN a : a[j] = u}]

\* LeaveOneGroupOut._iter_test_masks refuses fewer than two distinct groups.
\* Mutant: a single group is accepted.
TooFewGroups_none(u) == Len(u) = 0
TooFewGroups(u) == Len(u) <= 1

\* get_cv(X, y) is entered with a label vector of length n: lines 27-30.
CallGetCv ==
    /\ pc = "idle"
    /\ \E n \in Sizes :
         /\ y_size' = n
         /\ groups' = zeros(n)
         /\ n_members' = Members(n)
    /\ i' = 0
    /\ g' = 0
    /\ pc' = "cv_loop"
    /\ UNCHANGED <<gen, unique_groups, folds, rdVars, ret, err>>

\* One iteration of `for g in range(n_members)`: lines 31-33.
CvLoopBody ==
    /\ pc = "cv_loop"
    /\ g < n_members
    /\ groups' = SliceAssign(groups, i, i + t_size, g)
    /\ i' = i + t_size
    /\ g' = g + 1
    /\ UNCHANGED <<pc, y_size, n_members, gen, unique_groups, folds,
                   rdVars, ret, err>>

\* The loop is over; cv.split(X_cv, y, groups) creates the generator, whose
\* body does not run before the first next(): lines 34-36.
CvReturn ==
    /\ pc = "cv_loop"
    /\ g = n_members
    /\ gen' = "created"
    /\ ret' = "generator"
    /\ pc' = "cv_returned"
    /\ UNCHANGED <<y_size, groups, i, g, n_members, unique_groups, folds,
                   rdVars, err>>

\* The caller's first next(): the generator computes the distinct groups and
\* raises ValueError when there are fewer than two, else yields the first fold.
GenFirst ==
    /\ pc = "cv_returned"
    /\ gen = "created"
    /\ LET u == unique(groups) IN
         /\ unique_groups' = u
         /\ IF TooFewGroups(u)
            THEN /\ gen' = "raised"
                 /\ err' = "ValueError"
                 /\ folds' = folds
            ELSE /\ gen' = "suspended"
                 /\ err' = err
                 /\ folds' = Append(folds, Fold(groups, u[1]))
    /\ UNCHANGED <<pc, y_size, groups, i, g, n_members, rdVars, ret>>

\* A later next(): the fold of the next distinct group.
GenNext ==
    /\ pc = "cv_returned"
    /\ gen = "suspended"
    /\ Len(folds) < Len(unique_groups)
    /\ folds' = Append(folds, Fold(groups, unique_groups[Len(folds) + 1]))
    /\ UNCHANGED <<pc, y_size, groups, i, g, n_members, gen, unique_groups,
                   rdVars, ret, err>>

\* A next() after the last group: StopIteration, the iteration is exhausted.
GenStop ==
    /\ pc = "cv_returned"
    /\ gen = "suspended"
    /\ Len(folds) = Len(unique_groups)
    /\ gen' = "exhausted"
    /\ UNCHANGED <<pc, y_size, groups, i, g, n_members, unique_groups, folds,
                   rdVars, ret, err>>

(***************************************************************************)
(* _read_data                                                              *)
(***************************************************************************)

data_vars == <<"TS", "PSL", "TMQ">>

\* The root paths tried: the defaults of get_train_data and get_test_data.
Roots == {"./", "./data"}

\* os.path.join: a path is the sequence of its components.
join(p, a, b) == <<p, a, b>>

\* join(path, "data", f_prefix + "_{0}.nc".format(data_var))
nc_path(p, prefix, v) == join(p, "data", prefix \o "_" \o v \o ".nc")

\* join(path, "data", f_prefix + "_precip_90.csv")
csv_path(p, prefix) == join(p, "data", prefix \o "_precip_90.csv")

\* Every file one call reads.
AllFiles(p, prefix) ==
    {nc_path(p, prefix, data_vars[j]) : j \in 1..Len(data_vars)}
        \cup {csv_path(p, prefix)}

\* .stack(enstime=("ens", "time")): the (ens, time) pairs, ens-major.
stack(d) ==
    [s \in 1..(d[1] * d[2]) |-> <<(s - 1) \div d[2], (s - 1) % d[2]>>]

\* xr.merge of arrays sharing their sample coordinate: one structure keyed
\* by variable name.
merge(coll) ==
    [v \in {coll[j].name : j \in 1..Len(coll)} |->
        (CHOOSE a \in {coll[j] : j \in 1..Len(coll)} : a.name = v).enstime]

\* The label files tried.  A CSV file is a header line and rows; the "Year"
\* column stands at any position, the data columns hold 0 or 1.
ColName(c) == "m" \o ToString(c)
Headers(C) ==
    {[j \in 1..(C + 1) |-> IF j = p THEN "Year"
                           ELSE ColName(IF j < p THEN j ELSE j - 1)] :
        p \in 1..(C + 1)}
CsvFiles ==
    UNION {UNION {
        {[header |-> h,
          rows |-> [r \in 1..R |->
                      [j \in 1..(C + 1) |->
                          IF h[j] = "Year" THEN 1990 + r
                          ELSE cells[r][IF j < (CHOOSE q \in 1..(C + 1) : h[q] = "Year")
                                        THEN j ELSE j - 1]]]] :
            h \in Headers(C), cells \in [1..R -> [1..C -> {0, 1}]]} :
        R \in 0..MaxRows} : C \in 1..MaxCols}

\* The column names of a header but the index column, in file order.
RECURSIVE SelectNames(_, _)
SelectNames(s, index_col) ==
    IF s = <<>> THEN <<>>
    ELSE IF Head(s) = index_col THEN SelectNames(Tail(s), index_col)
    ELSE <<Head(s)>> \o SelectNames(Tail(s), index_col)

\* pd.read_csv(file, index_col=...): a frame whose columns are the file's
\* columns but the index column, in file order, each one the cells of its
\* position down the rows.
read_csv(f, index_col) ==
    LET pos(c) == CHOOSE j \in 1..Len(f.header) : f.header[j] = c
    IN  [columns |-> SelectNames(f.header, index_col),
         data |-> [c \in {f.header[j] : j \in 1..Len(f.header)} \ {index_col} |->
                     [r \in 1..Len(f.rows) |-> f.rows[r][pos(c)]]]]

\* Mutant: the arrays are joined last to first.
RECURSIVE concatenate_reversed(_)
concatenate_reversed(arrays) ==
    IF Len(arrays) = 1 THEN arrays[1]
    ELSE concatenate_reversed(Tail(arrays)) \o arrays[1]

\* np.concatenate of a list of one-dimensional arrays.
RECURSIVE concatenate(_)
concatenate(arrays) ==
    IF Len(arrays) = 1 THEN arrays[1]
    ELSE arrays[1] \o concatenate(Tail(arrays))

\* [y[c] for c in y.columns]
column_list(frame) == [j \in 1..Len(frame.columns) |-> frame.data[frame.columns[j]]]

\* _read_data(path, f_prefix) is entered: lines 39-40.  The files under
\* <path>/data are any subset of those the call reads; the gridded files
\* share their (ens, time) extents, so that xr.merge has nothing to align.
ReadDataEnter(p, prefix) ==
    /\ pc = "idle"
    /\ path' = p
    /\ f_prefix' = prefix
    /\ fs' \in SUBSET AllFiles(p, prefix)
    /\ dims' \in (1..MaxEns) \X (1..MaxTime)
    /\ X_coll' = <<>>
    /\ k' = 0
    /\ pc' = "rd_for"
    /\ UNCHANGED <<cvVars, csv, nc_file, stdout, handles, ds, X_ds, y,
                   y_array, io, ret, err>>

\* get_train_data(path): line 55.
get_train_data == \E p \in Roots : ReadDataEnter(p, "train")

\* get_test_data(path): line 59.
get_test_data == \E p \in Roots : ReadDataEnter(p, "test")

\* `for data_var in data_vars`, and the path of the next file: lines 41-42.
RdFor ==
    /\ pc = "rd_for"
    /\ k < Len(data_vars)
    /\ k' = k + 1
    /\ nc_file' = nc_path(path, f_prefix, data_vars[k + 1])
    /\ pc' = "rd_print"
    /\ UNCHANGED <<cvVars, fs, csv, dims, path, f_prefix, stdout, handles, ds,
                   X_coll, X_ds, y, y_array, io, ret, err>>

\* print(nc_file): line 43.
RdPrint ==
    /\ pc = "rd_print"
    /\ stdout' = Append(stdout, nc_file)
    /\ pc' = "rd_open"
    /\ UNCHANGED <<cvVars, fs, csv, dims, path, f_prefix, k, nc_file, handles, ds,
                   X_coll, X_ds, y, y_array, io, ret, err>>

\* Mutant: a missing file is skipped and the loop goes on.
RdOpen_skip_missing ==
    /\ pc = "rd_open"
    /\ IF nc_file \in fs
       THEN /\ handles' = handles \cup {nc_file}
            /\ ds' = [file |-> nc_file, loaded |-> FALSE]
            /\ io' = Append(io, <<"open", nc_file>>)
            /\ pc' = "rd_load"
       ELSE /\ pc' = "rd_for"
            /\ UNCHANGED <<handles, ds, io>>
    /\ UNCHANGED <<cvVars, fs, csv, dims, path, f_prefix, k, nc_file, stdout,
                   X_coll, X_ds, y, y_array, ret, err>>

\* xr.open_dataset(nc_file): line 44.  A missing file raises, and nothing
\* in _read_data or its callers catches it.
RdOpen ==
    /\ pc = "rd_open"
    /\ IF nc_file \in fs
       THEN /\ handles' = handles \cup {nc_file}
            /\ ds' = [file |-> nc_file, loaded |-> FALSE]
            /\ io' = Append(io, <<"open", nc_file>>)
            /\ pc' = "rd_load"
            /\ err' = err
       ELSE /\ err' = "FileNotFoundError"
            /\ pc' = "raised"
            /\ UNCHANGED <<handles, ds, io>>
    /\ UNCHANGED <<cvVars, fs, csv, dims, path, f_prefix, k, nc_file, stdout,
                   X_coll, X_ds, y, y_array, ret>>

\* ds.load(): line 45.
RdLoad ==
    /\ pc = "rd_load"
    /\ ds' = [ds EXCEPT !.loaded = TRUE]
    /\ io' = Append(io, <<"load", ds.file>>)
    /\ pc' = "rd_stack"
    /\ UNCHANGED <<cvVars, fs, csv, dims, path, f_prefix, k, nc_file, stdout,
                   handles, X_coll, X_ds, y, y_array, ret, err>>

\* X_coll.append(ds[data_var].stack(...).transpose(...)): line 46.
RdStack ==
    /\ pc = "rd_stack"
    /\ X_coll' = Append(X_coll, [name |-> data_vars[k], enstime |-> stack(dims)])
    /\ pc' = "rd_close"
    /\ UNCHANGED <<cvVars, fs, csv, dims, path, f_prefix, k, nc_file, stdout,
                   handles, ds, X_ds, y, y_array, io, ret, err>>

\* Mutant: the dataset is left open.
RdClose_forgotten ==
    /\ pc = "rd_close"
    /\ pc' = "rd_for"
    /\ UNCHANGED <<cvVars, fs, csv, dims, path, f_prefix, k, nc_file, stdout,
                   handles, ds, X_coll, X_ds, y, y_array, io, ret, err>>

\* ds.close(): line 47.
RdClose ==
    /\ pc = "rd_close"
    /\ handles' = handles \ {ds.file}
    /\ io' = Append(io, <<"close", ds.file>>)
    /\ pc' = "rd_for"
    /\ UNCHANGED <<cvVars, fs, csv, dims, path, f_prefix, k, nc_file, stdout, ds,
                   X_coll, X_ds, y, y_array, ret, err>>

\* The loop is over; X_ds = xr.merge(X_coll): line 48.
RdMerge ==
    /\ pc = "rd_for"
    /\ k = Len(data_vars)
    /\ X_ds' = merge(X_coll)
    /\ pc' = "rd_csv"
    /\ UNCHANGED <<cvVars, fs, csv, dims, path, f_prefix, k, nc_file, stdout,
                   handles, ds, X_coll, y, y_array, io, ret, err>>

\* y = pd.read_csv(..., index_col="Year"): line 49.
RdCsv ==
    /\ pc = "rd_csv"
    /\ IF csv_path(path, f_prefix) \in fs
       THEN /\ \E f \in CsvFiles :
                 /\ csv' = f
                 /\ y' = read_csv(f, "Year")
            /\ io' = Append(io, <<"read_csv", csv_path(path, f_prefix)>>)
            /\ pc' = "rd_concat"
            /\ err' = err
       ELSE /\ err' = "FileNotFoundError"
            /\ pc' = "raised"
            /\ UNCHANGED <<csv, y, io>>
    /\ UNCHANGED <<cvVars, fs, dims, path, f_prefix, k, nc_file, stdout,
                   handles, ds, X_coll, X_ds, y_array, ret>>

\* y_array = np.concatenate([y[c] for c in y.columns]): line 50.
RdConcat ==
    /\ pc = "rd_concat"
    /\ y_array' = concatenate(column_list(y))
    /\ pc' = "rd_return"
    /\ UNCHANGED <<cvVars, fs, csv, dims, path, f_prefix, k, nc_file, stdout,
                   handles, ds, X_coll, X_ds, y, io, ret, err>>

\* Mutant: the label length is checked against the gridded sample count.
RdReturn_length_checked ==
    /\ pc = "rd_return"
    /\ IF \A v \in DOMAIN X_ds : Len(X_ds[v]) = Len(y_array)
       THEN /\ ret' = <<X_ds, y_array>>
            /\ pc' = "returned"
            /\ err' = err
       ELSE /\ err' = "ValueError"
            /\ pc' = "raised"
            /\ ret' = ret
    /\ UNCHANGED <<cvVars, rdVars>>

\* return X_ds, y_array: line 51.
RdReturn ==
    /\ pc = "rd_return"
    /\ ret' = <<X_ds, y_array>>
    /\ pc' = "returned"
    /\ UNCHANGED <<cvVars, rdVars, err>>

Init ==
    /\ pc = "idle"
    /\ y_size = 0
    /\ groups = <<>>
    /\ i = 0
    /\ g = 0
    /\ n_members = 0
    /\ gen = None
    /\ unique_groups = <<>>
    /\ folds = <<>>
    /\ fs = {}
    /\ csv = None
    /\ dims = <<0, 0>>
    /\ path = None
    /\ f_prefix = None
    /\ k = 0
    /\ nc_file = None
    /\ stdout = <<>>
    /\ handles = {}
    /\ ds = None
    /\ X_coll = <<>>
    /\ X_ds = None
    /\ y = None
    /\ y_array = None
    /\ io = <<>>
    /\ ret = None
    /\ err = "none"

Next ==
    \/ CallGetCv
    \/ CvLoopBody
    \/ CvReturn
    \/ GenFirst
    \/ GenNext
    \/ GenStop
    \/ get_train_data
    \/ get_test_data
    \/ RdFor
    \/ RdPrint
    \/ RdOpen
    \/ RdLoad
    \/ RdStack
    \/ RdClose
    \/ RdMerge
    \/ RdCsv
    \/ RdConcat
    \/ RdReturn

Spec == Init /\ [][Next]_vars

(***************************************************************************)
(* Properties of get_cv                                                    *)
(***************************************************************************)

\* The caller's iteration has ended, by StopIteration or by an exception.
IterationOver == gen \in {"exhausted", "raised"}

Indices == 0..(y_size - 1)
FullBlocks == y_size \div t_size
Block(b) == (b * t_size)..((b + 1) * t_size - 1)
Remainder == {j \in Indices : j >= FullBlocks * t_size}
TestSets == {folds[f].test : f \in 1..Len(folds)}

\* C1 as stated: for every N, the iteration of get_cv's result ends with
\* exactly floor(N / 1155) folds yielded.
C1_FoldCountAllN == IterationOver => Len(folds) = FullBlocks

\* C1 amended: for N >= 2 * 1155 the iteration ends by exhaustion with exactly
\* floor(N / 1155) folds; for N < 2 * 1155 it ends with ValueError on the
\* first next() and no fold.
C1_FoldCount ==
    IterationOver =>
        IF y_size >= 2 * t_size
        THEN gen = "exhausted" /\ err = "none" /\ Len(folds) = FullBlocks
        ELSE gen = "raised" /\ err = "ValueError" /\ Len(folds) = 0

C1_Witness == gen = "exhausted" /\ Len(folds) = 3 /\ y_size % t_size # 0

\* C2 as stated: for every N, the test sets are pairwise disjoint and their
\* union is {0, ..., N-1}.
C2_PartitionAllN ==
    IterationOver =>
        /\ \A a, b \in 1..Len(folds) : a # b => folds[a].test \cap folds[b].test = {}
        /\ UNION TestSets = Indices

\* C2 amended: the test sets yielded are always pairwise disjoint; for
\* N >= 2 * 1155 the iteration is exhausted with their union {0, ..., N-1},
\* and for N < 2 * 1155 it ends with no test set at all.
C2_Partition ==
    /\ \A a, b \in 1..Len(folds) : a # b => folds[a].test \cap folds[b].test = {}
    /\ (IterationOver /\ y_size >= 2 * t_size) =>
           gen = "exhausted" /\ UNION TestSets = Indices
    /\ (IterationOver /\ y_size < 2 * t_size) => TestSets = {}

C2_Witness == gen = "exhausted" /\ Len(folds) >= 2 /\ Remainder # {}

\* C3 as stated: with N not a multiple of 1155 (and a full group), every
\* remainder sample has the group id floor(N/1155) - 1, is in the test set of
\* the last fold and in the train set of every other fold.
C3_RemainderInLastGroup ==
    (pc = "cv_returned" /\ y_size % t_size # 0 /\ n_members >= 1) =>
        \A j \in Remainder :
            /\ groups[j] = n_members - 1
            /\ gen = "exhausted" =>
                   /\ j \in folds[Len(folds)].test
                   /\ \A f \in 1..(Len(folds) - 1) : j \in folds[f].train

\* C3 amended: with N not a multiple of 1155, every remainder sample keeps
\* the group id 0 that groups was initialised with, and it is in the test
\* set of the first fold yielded and in the train set of every other fold.
C3_RemainderInFirstGroup ==
    (pc = "cv_returned" /\ y_size % t_size # 0) =>
        \A j \in Remainder :
            /\ groups[j] = 0
            /\ \A f \in 1..Len(folds) :
                   IF f = 1 THEN j \in folds[f].test /\ j \notin folds[f].train
                   ELSE j \in folds[f].train /\ j \notin folds[f].test

C3_Witness ==
    gen = "exhausted" /\ Len(folds) = 3 /\ Cardinality(Remainder) = t_size - 1

\* C4 as stated: for N < 1155 the fold sequence is created and iterated
\* without an exception and is empty.
C4_ShortInputNoError ==
    (pc = "cv_returned" /\ y_size < t_size) =>
        /\ err = "none"
        /\ gen # "raised"
        /\ folds = <<>>

\* C4 amended: for N < 1155 get_cv returns the fold sequence without an
\* exception, and the first next() on it raises ValueError with no fold
\* yielded.
C4_ShortInputRaises ==
    (pc = "cv_returned" /\ y_size < t_size) =>
        \/ gen = "created" /\ err = "none" /\ ret = "generator" /\ folds = <<>>
        \/ gen = "raised" /\ err = "ValueError" /\ folds = <<>>

C4_Witness == y_size = t_size - 1 /\ gen = "raised"

\* C5 as stated: the g-th fold yielded has the test set
\* {g*1155, ..., (g+1)*1155 - 1}, and for N = n * 1155 there are n folds.
C5_TestIsBlock ==
    /\ \A f \in 1..Len(folds) : folds[f].test = Block(f - 1)
    /\ (IterationOver /\ y_size % t_size = 0) => Len(folds) = FullBlocks

\* C5 amended: the g-th fold yielded has the test set {g*1155, ...,
\* (g+1)*1155 - 1} for g >= 1, and block 0 together with the remainder samples
\* for g = 0; for N = n * 1155 with n >= 2 there are n folds, each with a test
\* set of exactly 1155 indices (N = 3465: [0,1155), [1155,2310), [2310,3465)).
C5_TestIsBlockPlusRemainder ==
    /\ \A f \in 1..Len(folds) :
           folds[f].test = Block(f - 1) \cup (IF f = 1 THEN Remainder ELSE {})
    /\ (IterationOver /\ y_size % t_size = 0 /\ y_size >= 2 * t_size) =>
           /\ Len(folds) = FullBlocks
           /\ \A f \in 1..Len(folds) : Cardinality(folds[f].test) = t_size
    /\ (IterationOver /\ y_size = 3465) =>
           [f \in 1..Len(folds) |-> folds[f].test]
               = <<0..1154, 1155..2309, 2310..3464>>

C5_Witness == gen = "exhausted" /\ y_size = 3 * t_size /\ Len(folds) = 3

\* C6: in every fold yielded the train set is the complement of the test set
\* within {0, ..., N-1}, and the two sizes add up to N.
C6_TrainIsComplement ==
    \A f \in 1..Len(folds) :
        /\ folds[f].train \cap folds[f].test = {}
        /\ folds[f].train \cup folds[f].test = Indices
        /\ Cardinality(folds[f].train) + Cardinality(folds[f].test) = y_size

C6_Witness == Len(folds) = 2 /\ y_size = 2 * t_size + 1

(***************************************************************************)
(* Properties of _read_data                                                *)
(***************************************************************************)

\* _read_data has been entered.
InReadData == path # None

\* The label table of the file read: its data columns (the header positions
\* other than "Year") and its rows.
NumCols == Cardinality({j \in 1..Len(csv.header) : csv.header[j] # "Year"})
NumRows == Len(csv.rows)
\* The header position of the c-th data column, c = 1, 2, ...
DataColPos(c) ==
    CHOOSE j \in 1..Len(csv.header) :
        /\ csv.header[j] # "Year"
        /\ Cardinality({q \in 1..j : csv.header[q] # "Year"}) = c

\* The resolved path of the q-th variable file, <path>/data/<prefix>_<var>.nc.
VarPath(q) ==
    <<path, "data", f_prefix \o "_" \o (<<"TS", "PSL", "TMQ">>)[q] \o ".nc">>
LabelPath == <<path, "data", f_prefix \o "_precip_90.csv">>
AllPresent == \A q \in 1..3 : VarPath(q) \in fs
MissingVars == {q \in 1..3 : VarPath(q) \notin fs}
FirstMissing == CHOOSE q \in MissingVars : \A r \in MissingVars : q <= r

\* C7: the label vector returned has length C*R and holds at position
\* c*R + r the cell in row r of the c-th data column of the file.
C7_LabelsAreColumnsConcatenated ==
    pc \in {"rd_return", "returned"} =>
        /\ Len(y_array) = NumCols * NumRows
        /\ \A c \in 0..(NumCols - 1), r \in 0..(NumRows - 1) :
               y_array[c * NumRows + r + 1] = csv.rows[r + 1][DataColPos(c + 1)]
        /\ pc = "returned" => ret[2] = y_array

C7_Witness ==
    /\ pc = "returned"
    /\ NumCols = 2
    /\ NumRows = 2
    /\ csv.header[1] # "Year"
    /\ ret[2] = <<0, 1, 1, 1>>

\* C8: with every file present the call returns the gridded structure, of
\* ens * time samples per variable, and the label vector, whether or not the
\* label length equals the sample count; no exception is raised.
C8_NoLengthCheck ==
    (InReadData /\ AllPresent /\ LabelPath \in fs) =>
        /\ err = "none"
        /\ pc # "raised"
        /\ pc = "returned" =>
               /\ ret = <<X_ds, y_array>>
               /\ DOMAIN ret[1] = {"TS", "PSL", "TMQ"}
               /\ \A v \in DOMAIN ret[1] : Len(ret[1][v]) = dims[1] * dims[2]
               /\ Len(ret[2]) = NumCols * NumRows

C8_Witness ==
    /\ pc = "returned"
    /\ Len(ret[2]) = 4
    /\ Len(ret[1]["TS"]) = 2

\* The file operations of a complete call, in order.
ExpectedIo ==
    <<<<"open", VarPath(1)>>, <<"load", VarPath(1)>>, <<"close", VarPath(1)>>,
      <<"open", VarPath(2)>>, <<"load", VarPath(2)>>, <<"close", VarPath(2)>>,
      <<"open", VarPath(3)>>, <<"load", VarPath(3)>>, <<"close", VarPath(3)>>,
      <<"read_csv", LabelPath>>>>

\* C9: the gridded files are opened, loaded and closed one after the other
\* in the order TS, PSL, TMQ; at most one handle is open at any time, and
\* none while the label file is read or when the call returns.
C9_HandlesScoped ==
    InReadData =>
        /\ Len(io) <= Len(ExpectedIo)
        /\ \A j \in 1..Len(io) : io[j] = ExpectedIo[j]
        /\ Cardinality(handles) <= 1
        /\ handles # {} => pc \in {"rd_load", "rd_stack", "rd_close"}
        /\ pc \in {"rd_csv", "rd_concat", "rd_return", "returned"} =>
               /\ handles = {}
               /\ Len(io) >= 9

C9_Witness == pc = "returned" /\ Len(io) = 10 /\ handles = {}

\* C10: each variable file's path is printed before the file is opened, and
\* when the k-th variable file is the first one missing the call ends with
\* the error after printing exactly the first k paths; no later file and not
\* the label file is opened, nothing is returned and nothing follows.
C10_PrintThenOpenFatal ==
    InReadData =>
        /\ Len(stdout) <= 3
        /\ \A q \in 1..Len(stdout) : stdout[q] = VarPath(q)
        /\ \A j \in 1..Len(io) :
               io[j][1] = "open" =>
                   \E q \in 1..Len(stdout) : stdout[q] = io[j][2]
        /\ MissingVars # {} =>
               /\ Len(stdout) <= FirstMissing
               /\ \A j \in 1..Len(io) :
                      /\ io[j][1] # "read_csv"
                      /\ \A q \in FirstMissing..3 : io[j][2] # VarPath(q)
               /\ ret = None
               /\ X_ds = None
               /\ pc \notin {"rd_csv", "rd_concat", "rd_return", "returned"}
               /\ pc = "raised" =>
                      /\ Len(stdout) = FirstMissing
                      /\ err = "FileNotFoundError"
                      /\ ~ENABLED Next

C10_Witness ==
    /\ pc = "raised"
    /\ MissingVars = {2, 3}
    /\ Len(stdout) = 2
====
